---------------------------- MODULE Spec2Model ----------------------------
(***************************************************************************)
(* Model of cartoes_auto.py: detection of the card rectangles of a         *)
(* template page, content-aware trim of a rendered card half,              *)
(* fit-and-center of a raster in a slot, and the imposition driver         *)
(* gerar_pdf_final with the button handler that calls it.                  *)
(*                                                                         *)
(* Numbers: page coordinates are exact rationals <<n, d>> (d > 0, lowest   *)
(* terms) in points; Python's float arithmetic is modelled by exact        *)
(* rational arithmetic, so IEEE rounding of the last bit is not part of    *)
(* the model.                                                              *)
(***************************************************************************)
EXTENDS Integers, Sequences, FiniteSets

VARIABLES
    template,     \* the uploaded template: "nofile", "malformed" or the drawings of page 0
    card_files,   \* the uploaded card documents, in upload order
    via,          \* who called gerar_pdf_final: "ui" (button handler) or "call"
    pc,           \* position in the handler / in gerar_pdf_final
    rows,         \* grid returned by detectar_slots_template
    card_idx,     \* index of the next card to consume (0-based, as in the code)
    row_i,        \* position of the `for row_rects in rows` loop (1-based)
    cur,          \* draw operations issued on the canvas page being built
    pages,        \* pages closed by showPage, in order
    n_raster,     \* number of get_pixmap calls made so far
    err,          \* the exception raised, "" when none
    out_bytes,    \* bytes returned by gerar_pdf_final: none yet, or the saved pages
    ui,           \* what the handler showed: "", an error message or "download"
    fit_in,       \* arguments of a fit_and_center call
    fit_out,      \* its result
    trim_in,      \* arguments of a compute_trimmed_clip call and the raster it renders
    trim_out      \* its result

vars == <<template, card_files, via, pc, rows, card_idx, row_i, cur, pages,
          n_raster, err, out_bytes, ui, fit_in, fit_out, trim_in, trim_out>>

-----------------------------------------------------------------------------
(* Exact rational arithmetic standing for Python floats.                   *)

Abs(n) == IF n < 0 THEN -n ELSE n

RECURSIVE GCD(_, _)
GCD(a, b) == IF b = 0 THEN a ELSE GCD(b, a % b)

Q(n, d) ==
    LET g == GCD(Abs(n), Abs(d))
        s == IF d < 0 THEN -1 ELSE 1
    IN  <<(s * n) \div g, (s * d) \div g>>

RInt(n) == <<n, 1>>
RAdd(a, b) == Q(a[1] * b[2] + b[1] * a[2], a[2] * b[2])
RSub(a, b) == Q(a[1] * b[2] - b[1] * a[2], a[2] * b[2])
RMul(a, b) == Q(a[1] * b[1], a[2] * b[2])
RDiv(a, b) == Q(a[1] * b[2], a[2] * b[1])
RLe(a, b) == a[1] * b[2] <= b[1] * a[2]
RLt(a, b) == a[1] * b[2] < b[1] * a[2]
RMin(a, b) == IF RLe(a, b) THEN a ELSE b
RFloor(a) == a[1] \div a[2]
RCeil(a) == -((-a[1]) \div a[2])

\* round(x, 1): nearest multiple of 1/10, an exact tie going to the even one.
Round1(x) ==
    LET f == (10 * x[1]) \div x[2]             \* floor(10 x)
        twice == 2 * (10 * x[1] - f * x[2])    \* 2 * x[2] * fractional part of 10 x
    IN  IF twice < x[2] THEN Q(f, 10)
        ELSE IF twice > x[2] THEN Q(f + 1, 10)
        ELSE IF f % 2 = 0 THEN Q(f, 10) ELSE Q(f + 1, 10)

\* fitz.Rect as [x0, y0, x1, y1]
Rect(x0, y0, x1, y1) == [x0 |-> x0, y0 |-> y0, x1 |-> x1, y1 |-> y1]
Width(r) == RSub(r.x1, r.x0)
Height(r) == RSub(r.y1, r.y0)

-----------------------------------------------------------------------------
(* detectar_slots_template                                                 *)

MinSide == 20

NoRect == [none |-> TRUE]

\* `if r is None: continue` and `if r.width > 20 and r.height > 20`
IsCandidateGe(d) ==
    /\ d # NoRect
    /\ RLe(RInt(MinSide), Width(d))
    /\ RLe(RInt(MinSide), Height(d))

IsCandidate(d) ==
    /\ d # NoRect
    /\ RLt(RInt(MinSide), Width(d))
    /\ RLt(RInt(MinSide), Height(d))

\* rects: the candidates, in drawing order
CandidateRects(drawings) == SelectSeq(drawings, IsCandidate)

SizeKey(r) == <<Round1(Width(r)), Round1(Height(r))>>

\* Counter(...).most_common(1)[0]: the highest count; among equal counts the
\* size inserted first, i.e. the one that appears first in rects.
MainSize(rects) ==
    LET n == Len(rects)
        keys == [i \in 1..n |-> SizeKey(rects[i])]
        count == [i \in 1..n |-> Cardinality({j \in 1..n : keys[j] = keys[i]})]
        best == CHOOSE i \in 1..n :
                    /\ \A j \in 1..n : count[j] <= count[i]
                    /\ \A j \in 1..(i - 1) : count[j] < count[i]
    IN  keys[best]

CardRects(rects) ==
    LET main == MainSize(rects)
        IsMain(r) == SizeKey(r) = main
    IN  SelectSeq(rects, IsMain)

\* sorted(rows_dict.keys()): ascending
RECURSIVE InsertKey(_, _)
InsertKey(sorted, k) ==
    IF sorted = <<>> THEN <<k>>
    ELSE IF RLt(k, Head(sorted)) THEN <<k>> \o sorted
    ELSE <<Head(sorted)>> \o InsertKey(Tail(sorted), k)

RECURSIVE SortKeys(_)
SortKeys(S) ==
    IF S = {} THEN <<>>
    ELSE LET k == CHOOSE k \in S : TRUE IN InsertKey(SortKeys(S \ {k}), k)

\* sorted(rows_dict[y], key=lambda rc: rc.x0): ascending x0, stable
RECURSIVE InsertByX0(_, _)
InsertByX0(sorted, e) ==
    IF sorted = <<>> THEN <<e>>
    ELSE IF RLt(e.x0, Head(sorted).x0) THEN <<e>> \o sorted
    ELSE <<Head(sorted)>> \o InsertByX0(Tail(sorted), e)

RECURSIVE SortByX0(_)
SortByX0(s) ==
    IF s = <<>> THEN <<>>
    ELSE InsertByX0(SortByX0(SubSeq(s, 1, Len(s) - 1)), s[Len(s)])

RowKey(r) == Round1(r.y0)

\* rows_dict keys, each once
RowKeys(card_rects) == {RowKey(card_rects[i]) : i \in 1..Len(card_rects)}

\* rows: keys ascending, each row sorted by x0
GroupRows(card_rects) ==
    LET keys == SortKeys(RowKeys(card_rects))
        RowOf(y) == LET InRow(r) == RowKey(r) = y
                    IN  SortByX0(SelectSeq(card_rects, InRow))
    IN  [k \in 1..Len(keys) |-> RowOf(keys[k])]

MinCardRects == 2

\* The whole function: [err, rows]
DetectarSlotsTemplate(drawings) ==
    LET rects == CandidateRects(drawings)
        card_rects == CardRects(rects)
    IN  IF rects = <<>> THEN [err |-> "NoGeometry", rows |-> <<>>]
        ELSE IF Len(card_rects) < MinCardRects
             THEN [err |-> "InsufficientGeometry", rows |-> <<>>]
        ELSE [err |-> "", rows |-> GroupRows(card_rects)]

-----------------------------------------------------------------------------
(* rect_to_reportlab_coords                                                *)

RectToReportlabCoords(r, page_height) ==
    [x |-> r.x0, y |-> RSub(page_height, r.y1), w |-> Width(r), h |-> Height(r)]

-----------------------------------------------------------------------------
(* compute_trimmed_clip                                                    *)

BgThreshold == 250

\* zoom_card = zoom_template = 300 / 72.0
Zoom == Q(300, 72)

\* samples[idx] with Python's 0-based idx
Sample(pix, idx) == pix.samples[idx + 1]

\* r, g, b of pixel (x, y)
Channels(pix, x, y) ==
    LET idx == y * pix.width * pix.n + x * pix.n
    IN  <<Sample(pix, idx),
          IF pix.n > 1 THEN Sample(pix, idx + 1) ELSE Sample(pix, idx),
          IF pix.n > 2 THEN Sample(pix, idx + 2) ELSE Sample(pix, idx)>>

\* `if r < bg_threshold or g < bg_threshold or b < bg_threshold`
IsContentRedOnly(c) == c[1] < BgThreshold

IsContent(c) == c[1] < BgThreshold \/ c[2] < BgThreshold \/ c[3] < BgThreshold

ContentPixels(pix) ==
    {p \in (0..(pix.width - 1)) \X (0..(pix.height - 1)) : IsContent(Channels(pix, p[1], p[2]))}

SetMin(S) == CHOOSE m \in S : \A k \in S : m <= k
SetMax(S) == CHOOSE m \in S : \A k \in S : k <= m

\* min_x, min_y, max_x, max_y after the scan of every pixel
ScanBox(pix) ==
    LET c == ContentPixels(pix)
        xs == {p[1] : p \in c}
        ys == {p[2] : p \in c}
    IN  IF c = {} THEN [min_x |-> pix.width, min_y |-> pix.height, max_x |-> -1, max_y |-> -1]
        ELSE [min_x |-> SetMin(xs), min_y |-> SetMin(ys),
              max_x |-> SetMax(xs), max_y |-> SetMax(ys)]

\* the pixel box mapped back to page coordinates, the max edge one pixel further
PixelBoxToClip(box, base_clip, zoom) ==
    LET inv == RDiv(RInt(1), zoom)
    IN  Rect(RAdd(base_clip.x0, RMul(RInt(box.min_x), inv)),
             RAdd(base_clip.y0, RMul(RInt(box.min_y), inv)),
             RAdd(base_clip.x0, RMul(RInt(box.max_x + 1), inv)),
             RAdd(base_clip.y0, RMul(RInt(box.max_y + 1), inv)))

\* pix is what page.get_pixmap(matrix=mat, clip=base_clip) returned
ComputeTrimmedClip(pix, base_clip, zoom) ==
    LET box == ScanBox(pix)
    IN  IF box.max_x < 0 \/ box.max_y < 0 THEN base_clip
        ELSE PixelBoxToClip(box, base_clip, zoom)

\* Pixel counts get_pixmap may give a clip extent: the scaled extent rounded to
\* a whole number of pixels, downwards or upwards, at least one pixel.
PixExtents(len, zoom) ==
    {k \in {RFloor(RMul(len, zoom)), RCeil(RMul(len, zoom))} : k >= 1}

-----------------------------------------------------------------------------
(* fit_and_center                                                          *)

\* margin_factor=0.95
DefaultMargin == Q(95, 100)

FitScaleMax(slot_w, slot_h, img_w, img_h) ==
    LET a == RDiv(slot_w, RInt(img_w))
        b == RDiv(slot_h, RInt(img_h))
    IN  IF RLe(a, b) THEN b ELSE a

\* scale = min(slot_w / img_w, slot_h / img_h)
FitScale(slot_w, slot_h, img_w, img_h) ==
    RMin(RDiv(slot_w, RInt(img_w)), RDiv(slot_h, RInt(img_h)))

FitAndCenter(slot_x, slot_y, slot_w, slot_h, img_w, img_h, margin_factor) ==
    LET scale == RMul(FitScale(slot_w, slot_h, img_w, img_h), margin_factor)
        render_w == RMul(RInt(img_w), scale)
        render_h == RMul(RInt(img_h), scale)
    IN  [x |-> RAdd(slot_x, RDiv(RSub(slot_w, render_w), RInt(2))),
         y |-> RAdd(slot_y, RDiv(RSub(slot_h, render_h), RInt(2))),
         w |-> render_w,
         h |-> render_h]

-----------------------------------------------------------------------------
(* Inputs of gerar_pdf_final                                               *)

MaxDrawings == 5
MaxCards == 3

R2(a, b) == Q(a, b)
P(n) == RInt(n)

\* page.rect of the template page
PageRect == Rect(P(0), P(0), P(190), P(90))

\* Drawing primitives a template page may hold: a grid of 50 x 30 card
\* rectangles in two rows (the tops of the second row differ by less than
\* 0.05) and three columns, and the page border.
SlotA == Rect(P(10), P(10), P(60), P(40))
SlotB == Rect(P(70), P(10), P(120), P(40))
SlotC == Rect(P(130), P(10), P(180), P(40))
SlotD == Rect(P(10), R2(5004, 100), P(60), R2(8004, 100))
SlotE == Rect(P(70), R2(4996, 100), P(120), R2(7996, 100))
SlotF == Rect(P(130), P(50), P(180), P(80))
Border == Rect(P(0), P(0), P(190), P(90))

DriverPalette == <<SlotA, SlotB, SlotC, SlotD, SlotE, SlotF, Border>>

RECURSIVE InPaletteOrder(_, _)
InPaletteOrder(palette, I) ==
    IF I = {} THEN <<>>
    ELSE LET m == CHOOSE m \in I : \A k \in I : m <= k
         IN  <<palette[m]>> \o InPaletteOrder(palette, I \ {m})

Reverse(s) == [i \in 1..Len(s) |-> s[Len(s) + 1 - i]]

\* The drawing lists tried: at most n of the palette's primitives, each once,
\* in the palette's order or in the reverse order.
DrawingLists(palette, n) ==
    LET picks == {I \in SUBSET (1..Len(palette)) : Cardinality(I) <= n}
    IN  {InPaletteOrder(palette, I) : I \in picks}
            \cup {Reverse(InPaletteOrder(palette, I)) : I \in picks}

SeqsUpTo(S, n) == UNION {[1..k -> S] : k \in 0..n}

Template(kind, drawings) == [kind |-> kind, drawings |-> drawings]

Templates ==
    {Template("nofile", <<>>), Template("malformed", <<>>)}
        \cup {Template("pdf", d) : d \in DrawingLists(DriverPalette, MaxDrawings)}

\* A card document: "bad" does not open as a PDF; "art" is a page of 8 x 2
\* pixels at the render zoom (1.92 x 0.48 points) whose left half holds dark
\* artwork inside a white margin and whose right half is blank.
CardKinds == {"bad", "art"}

CardPageRect(kind) == Rect(P(0), P(0), R2(48, 25), R2(12, 25))

CardDark(kind, px, py) == kind = "art" /\ px \in {1, 2}

\* page.get_pixmap(matrix, clip, alpha=False) of a card page, w x h pixels, RGB
GetPixmap(kind, clip, w, h) ==
    LET ox == RFloor(RMul(clip.x0, Zoom))
        oy == RFloor(RMul(clip.y0, Zoom))
    IN  [width |-> w, height |-> h, n |-> 3,
         samples |-> [i \in 1..(w * h * 3) |->
                        LET p == (i - 1) \div 3
                        IN  IF CardDark(kind, ox + (p % w), oy + (p \div w))
                            THEN 0 ELSE 255]]

NoBytes == [kind |-> "none", pages |-> <<>>]

NoPlacement == [x |-> P(0), y |-> P(0), w |-> P(0), h |-> P(0)]
NoFitIn == [slot_x |-> P(0), slot_y |-> P(0), slot_w |-> P(0), slot_h |-> P(0),
            img_w |-> 0, img_h |-> 0, margin |-> P(0)]
NoPix == [width |-> 0, height |-> 0, n |-> 3, samples |-> <<>>]
NoRectangle == Rect(P(0), P(0), P(0), P(0))
NoTrimIn == [base |-> NoRectangle, pix |-> NoPix]

PureIdle ==
    /\ fit_in = NoFitIn
    /\ fit_out = NoPlacement
    /\ trim_in = NoTrimIn
    /\ trim_out = NoRectangle

DriverIdle ==
    /\ via = ""
    /\ rows = <<>>
    /\ card_idx = 0
    /\ row_i = 0
    /\ cur = <<>>
    /\ pages = <<>>
    /\ n_raster = 0
    /\ err = ""
    /\ out_bytes = NoBytes
    /\ ui = ""

Init ==
    /\ template \in Templates
    /\ card_files \in SeqsUpTo(CardKinds, MaxCards)
    /\ pc = "idle"
    /\ DriverIdle
    /\ PureIdle

-----------------------------------------------------------------------------
(* The button handler and gerar_pdf_final                                  *)

pure_vars == <<fit_in, fit_out, trim_in, trim_out>>

ButtonPressedAnyTemplate ==
    /\ pc = "idle"
    /\ IF card_files = <<>>
       THEN /\ ui' = "Please upload at least one player card PDF."
            /\ pc' = "ui_done"
            /\ via' = via
       ELSE /\ via' = "ui"
            /\ pc' = "detect"
            /\ ui' = ui
    /\ UNCHANGED <<template, card_files, rows, card_idx, row_i, cur, pages,
                   n_raster, err, out_bytes, pure_vars>>

\* `if st.button(...)`: the handler's checks, then the call
ButtonPressed ==
    /\ pc = "idle"
    /\ IF template.kind = "nofile"
       THEN /\ ui' = "Please upload the template PDF."
            /\ pc' = "ui_done"
            /\ via' = via
       ELSE IF card_files = <<>>
       THEN /\ ui' = "Please upload at least one player card PDF."
            /\ pc' = "ui_done"
            /\ via' = via
       ELSE /\ via' = "ui"
            /\ pc' = "detect"
            /\ ui' = ui
    /\ UNCHANGED <<template, card_files, rows, card_idx, row_i, cur, pages,
                   n_raster, err, out_bytes, pure_vars>>

\* gerar_pdf_final(template_bytes, card_files) called by any other caller
DirectCall ==
    /\ pc = "idle"
    /\ template.kind # "nofile"
    /\ via' = "call"
    /\ pc' = "detect"
    /\ UNCHANGED <<template, card_files, rows, card_idx, row_i, cur, pages,
                   n_raster, err, out_bytes, ui, pure_vars>>

\* page_rect, slots_flat, rows = detectar_slots_template(template_bytes)
Detect ==
    /\ pc = "detect"
    /\ IF template.kind = "malformed"
       THEN /\ err' = "MalformedTemplateDocument"
            /\ pc' = "raised"
            /\ rows' = rows
       ELSE LET d == DetectarSlotsTemplate(template.drawings)
            IN  IF d.err # ""
                THEN /\ err' = d.err
                     /\ pc' = "raised"
                     /\ rows' = rows
                ELSE /\ rows' = d.rows
                     /\ pc' = "layout"
                     /\ err' = err
    /\ UNCHANGED <<template, card_files, via, card_idx, row_i, cur, pages,
                   n_raster, out_bytes, ui, pure_vars>>

InvalidLayoutEveryRow(rws) ==
    \E r \in 1..Len(rws) : Len(rws[r]) < 2 \/ Len(rws[r]) % 2 # 0

InvalidLayoutUnchecked(rws) == FALSE

\* slots_per_row = len(rows[0]); if slots_per_row < 2 or slots_per_row % 2 != 0
InvalidLayout(rws) ==
    LET slots_per_row == Len(rws[1])
    IN  slots_per_row < 2 \/ slots_per_row % 2 # 0

CheckLayoutAfterRender ==
    /\ pc = "layout"
    /\ n_raster' = n_raster + 1
    /\ IF InvalidLayout(rows)
       THEN /\ err' = "InvalidLayout"
            /\ pc' = "raised"
       ELSE /\ pc' = "read"
            /\ err' = err
    /\ UNCHANGED <<template, card_files, via, rows, card_idx, row_i, cur, pages,
                   out_bytes, ui, pure_vars>>

CheckLayout ==
    /\ pc = "layout"
    /\ IF InvalidLayout(rows)
       THEN /\ err' = "InvalidLayout"
            /\ pc' = "raised"
       ELSE /\ pc' = "background"
            /\ err' = err
    /\ UNCHANGED <<template, card_files, via, rows, card_idx, row_i, cur, pages,
                   n_raster, out_bytes, ui, pure_vars>>

\* pix_template = page_template.get_pixmap(...): the background image
RenderBackground ==
    /\ pc = "background"
    /\ n_raster' = n_raster + 1
    /\ pc' = "read"
    /\ UNCHANGED <<template, card_files, via, rows, card_idx, row_i, cur, pages,
                   err, out_bytes, ui, pure_vars>>

\* card_bytes_list, total_cards, card_idx = 0, the canvas
ReadCards ==
    /\ pc = "read"
    /\ card_idx' = 0
    /\ cur' = <<>>
    /\ pages' = <<>>
    /\ pc' = "while"
    /\ UNCHANGED <<template, card_files, via, rows, row_i, n_raster, err,
                   out_bytes, ui, pure_vars>>

MoreCardsOrFirst(idx, total) == idx < total \/ idx = 0

\* while card_idx < total_cards
MoreCards(idx, total) == idx < total

DrawOp(op, card, half, row, slot, at) ==
    [op |-> op, card |-> card, half |-> half, row |-> row, slot |-> slot, at |-> at]

\* c.drawImage(template_img, 0, 0, width=page_width, height=page_height)
BackgroundOp ==
    DrawOp("background", -1, "", 0, PageRect,
           [x |-> P(0), y |-> P(0), w |-> Width(PageRect), h |-> Height(PageRect)])

PageBegin ==
    /\ pc = "while"
    /\ MoreCards(card_idx, Len(card_files))
    /\ cur' = Append(cur, BackgroundOp)
    /\ row_i' = 1
    /\ pc' = "rows"
    /\ UNCHANGED <<template, card_files, via, rows, card_idx, pages, n_raster,
                   err, out_bytes, ui, pure_vars>>

LoopExit ==
    /\ pc = "while"
    /\ ~MoreCards(card_idx, Len(card_files))
    /\ pc' = "save"
    /\ UNCHANGED <<template, card_files, via, rows, card_idx, row_i, cur, pages,
                   n_raster, err, out_bytes, ui, pure_vars>>

RowsExhausted ==
    /\ pc = "rows"
    /\ row_i > Len(rows)
    /\ pc' = "showpage"
    /\ UNCHANGED <<template, card_files, via, rows, card_idx, row_i, cur, pages,
                   n_raster, err, out_bytes, ui, pure_vars>>

\* if card_idx >= total_cards: break
RowBreak ==
    /\ pc = "rows"
    /\ row_i <= Len(rows)
    /\ card_idx >= Len(card_files)
    /\ pc' = "showpage"
    /\ UNCHANGED <<template, card_files, via, rows, card_idx, row_i, cur, pages,
                   n_raster, err, out_bytes, ui, pure_vars>>

\* if len(row_rects) < 2: continue
RowSkip ==
    /\ pc = "rows"
    /\ row_i <= Len(rows)
    /\ card_idx < Len(card_files)
    /\ Len(rows[row_i]) < 2
    /\ row_i' = row_i + 1
    /\ UNCHANGED <<template, card_files, via, rows, card_idx, cur, pages,
                   n_raster, err, pc, out_bytes, ui, pure_vars>>

SlotPairSwapped(row_rects) == <<row_rects[2], row_rects[1]>>

\* slot_left = row_rects[0]; slot_right = row_rects[1]
SlotPair(row_rects) == <<row_rects[1], row_rects[2]>>

\* base_L, base_R: the page split at its horizontal midpoint
BaseHalves(page_rect) ==
    LET card_w == Width(page_rect)
        card_h == Height(page_rect)
        half_w == RDiv(card_w, RInt(2))
    IN  <<Rect(P(0), P(0), half_w, card_h), Rect(half_w, P(0), card_w, card_h)>>

\* compute_trimmed_clip(page_card, base, zoom_card), for each size the
\* rendering of base may have
TrimmedClips(kind, base) ==
    {ComputeTrimmedClip(GetPixmap(kind, base, w, h), base, Zoom) :
        w \in PixExtents(Width(base), Zoom), h \in PixExtents(Height(base), Zoom)}

\* (pix.width, pix.height) of page_card.get_pixmap(matrix=mat_card, clip=clip)
RenderedSizes(clip) ==
    PixExtents(Width(clip), Zoom) \X PixExtents(Height(clip), Zoom)

\* fit_and_center of a rendered half in a slot converted to canvas coordinates
PlaceInSlot(slot, size) ==
    LET c == RectToReportlabCoords(slot, Height(PageRect))
    IN  FitAndCenter(c.x, c.y, c.w, c.h, size[1], size[2], DefaultMargin)

\* One row that takes a card: open it, trim and render both halves, draw them
RowCard ==
    /\ pc = "rows"
    /\ row_i <= Len(rows)
    /\ card_idx < Len(card_files)
    /\ Len(rows[row_i]) >= 2
    /\ LET kind == card_files[card_idx + 1]
           slots == SlotPair(rows[row_i])
           halves == BaseHalves(CardPageRect(kind))
       IN  IF kind = "bad"
           THEN /\ err' = "MalformedCardDocument"
                /\ pc' = "raised"
                /\ UNCHANGED <<cur, n_raster, card_idx, row_i>>
           ELSE \E clip_L \in TrimmedClips(kind, halves[1]),
                   clip_R \in TrimmedClips(kind, halves[2]) :
                  \E size_L \in RenderedSizes(clip_L), size_R \in RenderedSizes(clip_R) :
                     /\ cur' = cur \o
                           <<DrawOp("card", card_idx, "L", row_i, slots[1],
                                    PlaceInSlot(slots[1], size_L)),
                             DrawOp("card", card_idx, "R", row_i, slots[2],
                                    PlaceInSlot(slots[2], size_R))>>
                     /\ n_raster' = n_raster + 4
                     /\ card_idx' = card_idx + 1
                     /\ row_i' = row_i + 1
                     /\ UNCHANGED <<err, pc>>
    /\ UNCHANGED <<template, card_files, via, rows, pages, out_bytes, ui, pure_vars>>

ShowPageFlushing ==
    /\ pc = "showpage"
    /\ pages' = Append(pages, cur)
    /\ out_bytes' = [kind |-> "pdf", pages |-> pages']
    /\ cur' = <<>>
    /\ pc' = "while"
    /\ UNCHANGED <<template, card_files, via, rows, card_idx, row_i, n_raster,
                   err, ui, pure_vars>>

\* c.showPage()
ShowPage ==
    /\ pc = "showpage"
    /\ pages' = Append(pages, cur)
    /\ cur' = <<>>
    /\ pc' = "while"
    /\ UNCHANGED <<template, card_files, via, rows, card_idx, row_i, n_raster,
                   err, out_bytes, ui, pure_vars>>

\* c.save(); return output_buffer.getvalue()
Save ==
    /\ pc = "save"
    /\ out_bytes' = [kind |-> "pdf", pages |-> pages]
    /\ pc' = "returned"
    /\ UNCHANGED <<template, card_files, via, rows, card_idx, row_i, cur, pages,
                   n_raster, err, ui, pure_vars>>

\* st.success(...); st.download_button(data=pdf_bytes, ...)
HandlerSuccess ==
    /\ pc = "returned"
    /\ via = "ui"
    /\ ui' = "download"
    /\ pc' = "ui_done"
    /\ UNCHANGED <<template, card_files, via, rows, card_idx, row_i, cur, pages,
                   n_raster, err, out_bytes, pure_vars>>

\* except Exception as e: st.error(f"Error: {e}")
HandlerExcept ==
    /\ pc = "raised"
    /\ via = "ui"
    /\ ui' = "Error"
    /\ pc' = "ui_done"
    /\ UNCHANGED <<template, card_files, via, rows, card_idx, row_i, cur, pages,
                   n_raster, err, out_bytes, pure_vars>>

Next ==
    \/ ButtonPressed
    \/ DirectCall
    \/ Detect
    \/ CheckLayout
    \/ RenderBackground
    \/ ReadCards
    \/ PageBegin
    \/ LoopExit
    \/ RowsExhausted
    \/ RowBreak
    \/ RowSkip
    \/ RowCard
    \/ ShowPage
    \/ Save
    \/ HandlerSuccess
    \/ HandlerExcept

Spec == Init /\ [][Next]_vars

-----------------------------------------------------------------------------
(* detectar_slots_template on its own, over a richer set of primitives     *)

MaxPrims == 3

\* 50 x 30 rectangles, one 50.04 wide (the same size once rounded), one 50.06
\* wide (another size once rounded), a rectangle exactly 20 wide, a small one,
\* a primitive with no rectangle, and the page border.
DetectPalette ==
    {SlotA,
     Rect(P(70), P(10), R2(12004, 100), P(40)),
     Rect(P(10), P(50), R2(6006, 100), P(80)),
     Rect(P(0), P(0), P(20), P(90)),
     Rect(P(0), P(0), P(15), P(15)),
     NoRect,
     Border}

InitDetect ==
    /\ template \in {Template("pdf", d) : d \in SeqsUpTo(DetectPalette, MaxPrims)}
    /\ card_files = <<>>
    /\ pc = "detect"
    /\ via = "call"
    /\ rows = <<>>
    /\ card_idx = 0
    /\ row_i = 0
    /\ cur = <<>>
    /\ pages = <<>>
    /\ n_raster = 0
    /\ err = ""
    /\ out_bytes = NoBytes
    /\ ui = ""
    /\ PureIdle

SpecDetect == InitDetect /\ [][Detect]_vars

-----------------------------------------------------------------------------
(* fit_and_center on its own                                               *)

MaxSlot == 3
MaxImg == 3

Margins == {Q(1, 2), DefaultMargin, Q(1, 1)}

InitFit ==
    /\ fit_in \in [slot_x : {P(-2), P(0), P(3)}, slot_y : {P(0), P(7)},
                   slot_w : {P(n) : n \in 1..MaxSlot}, slot_h : {P(n) : n \in 1..MaxSlot},
                   img_w : 1..MaxImg, img_h : 1..MaxImg, margin : Margins]
    /\ fit_out = NoPlacement
    /\ trim_in = NoTrimIn
    /\ trim_out = NoRectangle
    /\ template = Template("nofile", <<>>)
    /\ card_files = <<>>
    /\ pc = "fit"
    /\ DriverIdle

ApplyFit ==
    /\ pc = "fit"
    /\ fit_out' = FitAndCenter(fit_in.slot_x, fit_in.slot_y, fit_in.slot_w, fit_in.slot_h,
                               fit_in.img_w, fit_in.img_h, fit_in.margin)
    /\ pc' = "fit_done"
    /\ UNCHANGED <<template, card_files, via, rows, card_idx, row_i, cur, pages,
                   n_raster, err, out_bytes, ui, fit_in, trim_in, trim_out>>

SpecFit == InitFit /\ [][ApplyFit]_vars

-----------------------------------------------------------------------------
(* compute_trimmed_clip on its own                                         *)

MaxPix == 2

\* white, exactly the threshold on every channel, and below it on blue only
PixelKinds == {<<255, 255, 255>>, <<250, 250, 250>>, <<255, 255, 249>>}

\* clip extents: a whole number of pixels, or half a pixel less
ClipLens ==
    {RDiv(RInt(k), Zoom) : k \in 1..MaxPix}
        \cup {RDiv(Q(2 * k - 1, 2), Zoom) : k \in 1..MaxPix}

BaseClips ==
    {Rect(x0, P(0), RAdd(x0, lw), lh) : x0 \in {P(0), P(1)}, lw \in ClipLens, lh \in ClipLens}

\* an RGB raster of w x h pixels whose pixel p (row-major) is px[p]
RasterOf(w, h, px) ==
    [width |-> w, height |-> h, n |-> 3,
     samples |-> [i \in 1..(w * h * 3) |-> px[(i - 1) \div 3][((i - 1) % 3) + 1]]]

InitTrim ==
    /\ trim_in \in {[base |-> b, pix |-> NoPix] : b \in BaseClips}
    /\ trim_out = NoRectangle
    /\ fit_in = NoFitIn
    /\ fit_out = NoPlacement
    /\ template = Template("nofile", <<>>)
    /\ card_files = <<>>
    /\ pc = "trim_render"
    /\ DriverIdle

\* pix = page.get_pixmap(matrix=mat, clip=base_clip, alpha=False): any page content
TrimRender ==
    /\ pc = "trim_render"
    /\ \E w \in PixExtents(Width(trim_in.base), Zoom),
          h \in PixExtents(Height(trim_in.base), Zoom) :
          \E px \in [0..(w * h - 1) -> PixelKinds] :
             trim_in' = [trim_in EXCEPT !.pix = RasterOf(w, h, px)]
    /\ pc' = "trim_scan"
    /\ UNCHANGED <<template, card_files, via, rows, card_idx, row_i, cur, pages,
                   n_raster, err, out_bytes, ui, fit_in, fit_out, trim_out>>

\* the scan and the returned rectangle
TrimScan ==
    /\ pc = "trim_scan"
    /\ trim_out' = ComputeTrimmedClip(trim_in.pix, trim_in.base, Zoom)
    /\ pc' = "trim_done"
    /\ UNCHANGED <<template, card_files, via, rows, card_idx, row_i, cur, pages,
                   n_raster, err, out_bytes, ui, fit_in, fit_out, trim_in>>

NextTrim ==
    \/ TrimRender
    \/ TrimScan

SpecTrim == InitTrim /\ [][NextTrim]_vars

-----------------------------------------------------------------------------
(* Properties of fit_and_center (under SpecFit)                            *)

-----------------------------------------------------------------------------
(* Properties of compute_trimmed_clip (under SpecTrim)                     *)

\* some channel of some pixel is strictly below the background threshold
HasDarkSample(pix) == \E i \in 1..Len(pix.samples) : pix.samples[i] < 250

RectInside(inner, outer) ==
    /\ RLe(outer.x0, inner.x0)
    /\ RLe(outer.y0, inner.y0)
    /\ RLe(inner.x1, outer.x1)
    /\ RLe(inner.y1, outer.y1)

Area(r) == RMul(Width(r), Height(r))

\* the part of the page the rendered raster covers, from the clip's origin
RasterExtent(pix, base) ==
    Rect(base.x0, base.y0,
         RAdd(base.x0, RDiv(RInt(pix.width), Zoom)),
         RAdd(base.y0, RDiv(RInt(pix.height), Zoom)))

\* dark pixels in the first and the last column and row of the raster
DarkOnEveryEdge(pix) ==
    LET dark == {p \in (0..(pix.width - 1)) \X (0..(pix.height - 1)) :
                    \E c \in 0..2 :
                        pix.samples[(p[2] * pix.width + p[1]) * 3 + c + 1] < 250}
    IN  /\ \E p \in dark : p[1] = 0
        /\ \E p \in dark : p[1] = pix.width - 1
        /\ \E p \in dark : p[2] = 0
        /\ \E p \in dark : p[2] = pix.height - 1

-----------------------------------------------------------------------------
(* Properties of detectar_slots_template (under SpecDetect)                *)

\* C8: NoGeometry is raised exactly when no primitive has a rectangle more
\* than 20 wide and more than 20 high; InsufficientGeometry exactly when such
\* candidates exist and fewer than 2 of them have the most frequent rounded
\* (width, height); otherwise detection succeeds and every returned slot has
\* that rounded size.
DetectOutcome ==
    pc # "detect" =>
        LET ds == template.drawings
            cands == {i \in 1..Len(ds) :
                        /\ ds[i] # NoRect
                        /\ RLt(P(20), Width(ds[i]))
                        /\ RLt(P(20), Height(ds[i]))}
            freq(i) == Cardinality({j \in cands : SizeKey(ds[j]) = SizeKey(ds[i])})
            top == IF cands = {} THEN 0
                   ELSE LET m == CHOOSE m \in cands : \A k \in cands : freq(k) <= freq(m)
                        IN  freq(m)
        IN  /\ (err = "NoGeometry") <=> (cands = {})
            /\ (err = "InsufficientGeometry") <=> (cands # {} /\ top < 2)
            /\ err \in {"NoGeometry", "InsufficientGeometry", ""}
            /\ err = "" =>
                  /\ pc = "layout"
                  /\ rows # <<>>
                  /\ \A r \in 1..Len(rows) : \A c \in 1..Len(rows[r]) :
                        /\ \E i \in cands : ds[i] = rows[r][c] /\ freq(i) = top
                        /\ SizeKey(rows[r][c]) = SizeKey(rows[1][1])

\* Three candidates of three different rounded sizes: not enough rectangles.
DetectAllSizesDiffer ==
    /\ pc = "raised"
    /\ err = "InsufficientGeometry"
    /\ Len(CandidateRects(template.drawings)) = 3

-----------------------------------------------------------------------------
(* Properties of gerar_pdf_final and the button handler (under Spec)       *)

IsCardOp(o) == o.op = "card"
CardOps(page) == SelectSeq(page, IsCardOp)
BackgroundCount(page) == Cardinality({i \in 1..Len(page) : page[i].op = "background"})

\* the pages drawn so far: those closed by showPage, then the one being built
DrawnPages == IF cur = <<>> THEN pages ELSE Append(pages, cur)

\* detection succeeded and the layout check let the run through
LayoutPassed == rows # <<>> /\ pc # "layout" /\ err # "InvalidLayout"

\* gerar_pdf_final returned
Succeeded == out_bytes.kind = "pdf"

CeilDiv(n, d) == (n + d - 1) \div d

\* indices of the rows that hold at least two slots, top to bottom
UsableRows(rws) ==
    LET Usable(r) == Len(rws[r]) >= 2
    IN  SelectSeq([r \in 1..Len(rws) |-> r], Usable)

\* C1: with a grid of R rows of 2 slots each and N cards, at most ceil(N / R)
\* pages are ever closed, exactly ceil(N / R) once all cards are consumed (none
\* for an empty list), and on the last page only the rows up to the last
\* consumed card hold Placements.
Pagination ==
    (LayoutPassed /\ \A r \in 1..Len(rows) : Len(rows[r]) = 2) =>
        LET N == Len(card_files)
            R == Len(rows)
            last == N - (Len(pages) - 1) * R
        IN  /\ Len(pages) <= CeilDiv(N, R)
            /\ (pc = "save" \/ Succeeded) =>
                  /\ Len(pages) = CeilDiv(N, R)
                  /\ cur = <<>>
                  /\ N = 0 => pages = <<>>
                  /\ N > 0 =>
                        LET ops == CardOps(pages[Len(pages)])
                        IN  /\ Len(ops) = 2 * last
                            /\ \A i \in 1..Len(ops) : ops[i].row <= last

\* Three cards on a grid of two rows: two pages, the second with one row used.
PaginationPartialLastPage ==
    /\ Succeeded
    /\ Len(rows) = 2
    /\ \A r \in 1..Len(rows) : Len(rows[r]) = 2
    /\ Len(card_files) = 3
    /\ Len(pages) = 2
    /\ Len(CardOps(pages[2])) = 2

NoBytesOnFailure ==
    /\ err # "" => out_bytes = NoBytes /\ ui # "download"
    /\ Succeeded =>
          /\ err = ""
          /\ pc \in {"returned", "ui_done"}
          /\ card_idx = Len(card_files)
          /\ cur = <<>>
          /\ out_bytes.pages = pages
    /\ ui = "download" => Succeeded

\* A malformed card met after a page was already closed.
CardFailsAfterFirstPage ==
    /\ err = "MalformedCardDocument"
    /\ Len(pages) >= 1
    /\ pc = "ui_done"


\* the draw operations a page must hold for the cards first, first + 1, ...
\* laid one per row on the rows `use` of the grid: for the j-th card operation,
\* which card, which half, which row and which slot of that row
ExpectedOp(op, j, first, use) ==
    LET k == (j - 1) \div 2
        row == use[k + 1]
    IN  /\ op.card = first + k
        /\ op.row = row
        /\ IF j % 2 = 1
           THEN op.half = "L" /\ op.slot = rows[row][1]
           ELSE op.half = "R" /\ op.slot = rows[row][2]

\* every card operation drawn so far is the one expected when each page takes
\* Len(use) cards, on the rows `use`
CardsLaidOn(use) ==
    /\ \A p \in 1..Len(DrawnPages) :
          LET ops == CardOps(DrawnPages[p])
          IN  /\ Len(ops) <= 2 * Len(use)
              /\ \A j \in 1..Len(ops) : ExpectedOp(ops[j], j, (p - 1) * Len(use), use)
    /\ LET total == Cardinality({<<p, i>> \in (1..Len(DrawnPages)) \X (1..(2 * Len(rows) + 1)) :
                                    i <= Len(DrawnPages[p]) /\ DrawnPages[p][i].op = "card"})
       IN  total = 2 * card_idx

EveryPageConsumesACard ==
    LayoutPassed =>
        /\ Len(pages) <= card_idx
        /\ card_idx <= Len(card_files)
        /\ \A p \in 1..Len(DrawnPages) :
              /\ DrawnPages[p][1].op = "background"
              /\ BackgroundCount(DrawnPages[p]) = 1
        /\ \A p \in 1..Len(pages) :
              /\ Len(pages[p]) >= 3
              /\ pages[p][2].op = "card" /\ pages[p][2].half = "L"
              /\ pages[p][3].op = "card" /\ pages[p][3].half = "R"
              /\ pages[p][2].card = pages[p][3].card
        /\ pc = "showpage" => Len(cur) >= 3 /\ Len(pages) < card_idx
        /\ pc = "rows" => row_i \in 1..(Len(rows) + 1) /\ Len(pages) < Len(card_files)

\* The last of three pages being closed, each with one card.
ThirdPageClosed ==
    /\ pc = "while"
    /\ Len(pages) = 3
    /\ card_idx = 3
    /\ \A p \in 1..3 : Len(pages[p]) = 3

=============================================================================
